---------------------------- MODULE Spec2Model ----------------------------
(***************************************************************************)
(* A model of the JSON-to-CSV converter: path extraction, normalisation,   *)
(* key filtering and renaming, the two flatteners, the CSV writer and the  *)
(* directory merge.                                                        *)
(*                                                                         *)
(* Strings are sequences of characters (<<"a", ".", "b">> is "a.b"), so    *)
(* that splitting, concatenation, digit tests and ordering are computed.   *)
(* A JSON value is a tagged record; a Python dict is the sequence of its   *)
(* <<key, value>> pairs in insertion order, keys distinct.                 *)
(***************************************************************************)
EXTENDS Integers, Sequences, FiniteSets, TLC

VARIABLES
    call,       \* the operation in progress or last run, with its arguments
    ret,        \* its outcome: a returned value or a raised exception
    pc,         \* position inside convert_json_to_csv
    json_data,  \* local json_data of convert_json_to_csv
    data_list,  \* local data_list of convert_json_to_csv
    output_file, \* the file at the call's output path, or NoFile
    warnings,   \* the warnings logged so far
    merged_data, \* local merged_data of merge_json_files_from_folder
    file_idx    \* the next file of json_files the merge loop reads

vars == <<call, ret, pc, json_data, data_list, output_file, warnings,
          merged_data, file_idx>>

mergeVars == <<merged_data, file_idx>>

(***************************************************************************)
(* Bounds of the model.                                                    *)
(***************************************************************************)
MaxDepth == 3
MaxArr == 2
MaxKeys == 2
MaxPath == 2

(***************************************************************************)
(* Strings.                                                                *)
(***************************************************************************)
Range(s) == {s[i] : i \in DOMAIN s}

Min(a, b) == IF a < b THEN a ELSE b

\* Code points of the characters the model uses ("^2" stands for U+00B2,
\* SUPERSCRIPT TWO: a digit for str.isdigit, not a decimal for int).
OrdTable ==
    << <<" ", 32>>, <<"'", 39>>, <<",", 44>>, <<"-", 45>>, <<".", 46>>,
       <<"0", 48>>, <<"1", 49>>, <<"2", 50>>, <<"3", 51>>, <<"4", 52>>,
       <<"5", 53>>, <<"6", 54>>, <<"7", 55>>, <<"8", 56>>, <<"9", 57>>,
       <<":", 58>>, <<"F", 70>>, <<"N", 78>>, <<"T", 84>>, <<"[", 91>>,
       <<"]", 93>>, <<"_", 95>>, <<"a", 97>>, <<"b", 98>>, <<"c", 99>>,
       <<"e", 101>>, <<"f", 102>>, <<"g", 103>>, <<"i", 105>>,
       <<"l", 108>>, <<"m", 109>>, <<"n", 110>>, <<"o", 111>>,
       <<"r", 114>>, <<"s", 115>>, <<"t", 116>>, <<"u", 117>>,
       <<"v", 118>>, <<"x", 120>>, <<"y", 121>>, <<"z", 122>>,
       <<"{", 123>>, <<"}", 125>>, <<"^2", 178>> >>

Ord(c) == (CHOOSE p \in Range(OrdTable) : p[1] = c)[2]

\* s < t for Python strings: by code point, a proper prefix first.
StrLess(s, t) ==
    \E i \in 1..(Min(Len(s), Len(t)) + 1) :
        /\ \A j \in 1..(i - 1) : s[j] = t[j]
        /\ \/ i > Len(s) /\ i <= Len(t)
           \/ i <= Len(s) /\ i <= Len(t) /\ Ord(s[i]) < Ord(t[i])

DecimalChars == {"0", "1", "2", "3", "4", "5", "6", "7", "8", "9"}

DigitChars == DecimalChars \cup {"^2"}

\* str.isdigit(): non-empty and every character a digit.
IsDigit(s) == Len(s) > 0 /\ \A i \in DOMAIN s : s[i] \in DigitChars

\* Whether int(s) accepts s (no sign, no blanks in the model's strings).
IsDecimal(s) == Len(s) > 0 /\ \A i \in DOMAIN s : s[i] \in DecimalChars

DigitValue(c) == Ord(c) - Ord("0")

RECURSIVE ParseInt(_)
ParseInt(s) ==
    IF Len(s) = 0 THEN 0
    ELSE 10 * ParseInt(SubSeq(s, 1, Len(s) - 1)) + DigitValue(s[Len(s)])

DigitChar(d) == (CHOOSE p \in Range(OrdTable) : p[2] = Ord("0") + d)[1]

RECURSIVE IntToStr(_)
IntToStr(n) ==
    IF n < 0 THEN <<"-">> \o IntToStr(0 - n)
    ELSE IF n < 10 THEN <<DigitChar(n)>>
    ELSE IntToStr(n \div 10) \o <<DigitChar(n % 10)>>

\* str.split('.')
RECURSIVE SplitDots(_)
SplitDots(s) ==
    IF \A i \in DOMAIN s : s[i] # "."
    THEN <<s>>
    ELSE LET i == CHOOSE k \in DOMAIN s :
                      s[k] = "." /\ \A j \in 1..(k - 1) : s[j] # "."
         IN  <<SubSeq(s, 1, i - 1)>> \o SplitDots(SubSeq(s, i + 1, Len(s)))

\* sep.join(parts)
RECURSIVE JoinWith(_, _)
JoinWith(sep, parts) ==
    IF Len(parts) = 0 THEN <<>>
    ELSE IF Len(parts) = 1 THEN parts[1]
    ELSE parts[1] \o sep \o JoinWith(sep, Tail(parts))

(***************************************************************************)
(* JSON values as json.load returns them.                                  *)
(***************************************************************************)
JNull == [t |-> "null"]
JBool(b) == [t |-> "bool", b |-> b]
JNum(n) == [t |-> "num", n |-> n]
JStr(s) == [t |-> "str", s |-> s]
JArr(a) == [t |-> "arr", a |-> a]
JObj(o) == [t |-> "obj", o |-> o]

IsDict(v) == v.t = "obj"
IsList(v) == v.t = "arr"
IsScalar(v) == v.t \in {"null", "bool", "num", "str"}

\* dict operations on the sequence of <<key, value>> pairs
DictKeys(d) == {d[i][1] : i \in DOMAIN d}
DictHas(d, k) == \E i \in DOMAIN d : d[i][1] = k
DictGet(d, k) == d[CHOOSE i \in DOMAIN d : d[i][1] = k][2]
DictSet(d, k, v) ==
    IF DictHas(d, k)
    THEN [i \in DOMAIN d |-> IF d[i][1] = k THEN <<k, v>> ELSE d[i]]
    ELSE Append(d, <<k, v>>)

\* dict(items) and d.update(items): later pairs overwrite earlier ones
RECURSIVE DictUpdate(_, _)
DictUpdate(d, items) ==
    IF Len(items) = 0 THEN d
    ELSE DictUpdate(DictSet(d, items[1][1], items[1][2]), Tail(items))

DictFromItems(items) == DictUpdate(<<>>, items)

\* Two dicts are equal in Python when they hold the same entries.
DictEq(d, e) ==
    /\ DictKeys(d) = DictKeys(e)
    /\ \A k \in DictKeys(d) : DictGet(d, k) = DictGet(e, k)

(***************************************************************************)
(* str() and repr() of the values json.load produces (integers only).      *)
(***************************************************************************)
RECURSIVE PyRepr(_)
PyRepr(v) ==
    CASE v.t = "null" -> <<"N", "o", "n", "e">>
      [] v.t = "bool" -> IF v.b THEN <<"T", "r", "u", "e">>
                         ELSE <<"F", "a", "l", "s", "e">>
      [] v.t = "num" -> IntToStr(v.n)
      [] v.t = "str" -> <<"'">> \o v.s \o <<"'">>
      [] v.t = "arr" ->
            <<"[">> \o JoinWith(<<",", " ">>,
                                [i \in DOMAIN v.a |-> PyRepr(v.a[i])])
                    \o <<"]">>
      [] v.t = "obj" ->
            <<"{">> \o JoinWith(<<",", " ">>,
                                [i \in DOMAIN v.o |->
                                    <<"'">> \o v.o[i][1] \o <<"'", ":", " ">>
                                    \o PyRepr(v.o[i][2])])
                    \o <<"}">>

PyStr(v) == IF v.t = "str" THEN v.s ELSE PyRepr(v)

(***************************************************************************)
(* Outcomes of a call.                                                     *)
(***************************************************************************)
Ok(v) == [ok |-> TRUE, val |-> v]
Raise(e) == [ok |-> FALSE, err |-> e]
NoRet == [ok |-> FALSE, err |-> "none"]
NoFile == [exists |-> FALSE]
NoneValue == [t |-> "None"]

(***************************************************************************)
(* Path extraction.                                                        *)
(***************************************************************************)
\* One iteration of the loop of _extract_nested_data: the next
\* current_data, or the exception raised.
ExtractStepGet(cur, key) ==
    IF IsDict(cur)
    THEN IF DictHas(cur.o, key) THEN Ok(DictGet(cur.o, key)) ELSE Ok(JNull)
    ELSE IF IsList(cur) /\ IsDigit(key)
    THEN IF ~IsDecimal(key) THEN Raise("ValueError")
         ELSE LET index == ParseInt(key)
              IN  IF 0 <= index /\ index < Len(cur.a)
                  THEN Ok(cur.a[index + 1])
                  ELSE Raise("IndexError")
    ELSE Raise("KeyError")

ExtractStep(cur, key) ==
    IF IsDict(cur) /\ DictHas(cur.o, key)
    THEN Ok(DictGet(cur.o, key))
    ELSE IF IsList(cur) /\ IsDigit(key)
    THEN IF ~IsDecimal(key) THEN Raise("ValueError")
         ELSE LET index == ParseInt(key)
              IN  IF 0 <= index /\ index < Len(cur.a)
                  THEN Ok(cur.a[index + 1])
                  ELSE Raise("IndexError")
    ELSE Raise("KeyError")

RECURSIVE ExtractLoop(_, _)
ExtractLoop(cur, keys) ==
    IF Len(keys) = 0 THEN Ok(cur)
    ELSE LET r == ExtractStep(cur, keys[1])
         IN  IF r.ok THEN ExtractLoop(r.val, Tail(keys)) ELSE r

extract_nested_data(data, key_path) == ExtractLoop(data, SplitDots(key_path))

\* The same loop inlined in convert_with_pandas: data[int(key)] with no
\* range test of its own; the list raises IndexError past its end.
PandasStep(cur, key) ==
    IF IsDict(cur) /\ DictHas(cur.o, key)
    THEN Ok(DictGet(cur.o, key))
    ELSE IF IsList(cur) /\ IsDigit(key)
    THEN IF ~IsDecimal(key) THEN Raise("ValueError")
         ELSE IF ParseInt(key) < Len(cur.a)
              THEN Ok(cur.a[ParseInt(key) + 1])
              ELSE Raise("IndexError")
    ELSE Raise("KeyError")

RECURSIVE PandasLoop(_, _)
PandasLoop(cur, keys) ==
    IF Len(keys) = 0 THEN Ok(cur)
    ELSE LET r == PandasStep(cur, keys[1])
         IN  IF r.ok THEN PandasLoop(r.val, Tail(keys)) ELSE r

pandas_extract(data, key_path) == PandasLoop(data, SplitDots(key_path))

(***************************************************************************)
(* Bounded sets of inputs.                                                 *)
(***************************************************************************)
SeqsUpTo(S, n) == UNION {[1..m -> S] : m \in 0..n}

\* dicts of at most n entries, keys from K (distinct), values from S
DictsUpTo(K, S, n) ==
    {o \in SeqsUpTo(K \X S, n) :
        \A i, j \in DOMAIN o : o[i][1] = o[j][1] => i = j}

\* arrays and objects of at most n entries over S
Wide(K, S, n) ==
    {JArr(a) : a \in SeqsUpTo(S, n)} \cup {JObj(o) : o \in DictsUpTo(K, S, n)}

\* one-element arrays and one-key objects over S
Nest(K, S) ==
    {JArr(<<v>>) : v \in S} \cup {JObj(<< <<k, v>> >>) : k \in K, v \in S}

\* values nested to depth d, one entry per level
RECURSIVE Chain(_, _, _)
Chain(K, S, d) ==
    IF d = 0 THEN S
    ELSE LET C == Chain(K, S, d - 1) IN C \cup Nest(K, C)

kA == <<"a">>
kB == <<"b">>
kZ == <<"z">>

PathKeys == {kA, kB}
PathScalars == {JNum(5), JNum(10), JNum(20)}

PathData ==
    Chain(PathKeys, {JNum(5)}, MaxDepth)
      \cup Wide(PathKeys, PathScalars, MaxArr)
      \cup {JObj(<< <<kA, w>> >>) : w \in Wide(PathKeys, PathScalars, MaxArr)}

Segments ==
    {kA, kB, kZ, <<"0">>, <<"1">>, <<"2">>, <<"-", "1">>, <<"^2">>}

SegmentLists == UNION {[1..m -> Segments] : m \in 1..MaxPath}

(***************************************************************************)
(* The state after construction, and the path-extraction calls.            *)
(***************************************************************************)
InitRest ==
    /\ ret = NoRet
    /\ pc = "idle"
    /\ json_data = JNull
    /\ data_list = <<>>
    /\ output_file = NoFile
    /\ warnings = <<>>
    /\ merged_data = NoneValue
    /\ file_idx = 0

convVars == <<pc, json_data, data_list, output_file, warnings,
              merged_data, file_idx>>

\* A call not yet made: its arguments are chosen, its function is not.
Pending == call.fn = "none" /\ ret = NoRet

Begin(fn) == call' = [call EXCEPT !.fn = fn]

InitPath ==
    /\ \E data \in PathData, segs \in SegmentLists :
          call = [fn |-> "none", data |-> data, segs |-> segs,
                  key_path |-> JoinWith(<<".">>, segs)]
    /\ InitRest

ExtractNestedData ==
    /\ Pending
    /\ Begin("_extract_nested_data")
    /\ ret' = extract_nested_data(call.data, call.key_path)
    /\ UNCHANGED convVars

PandasExtract ==
    /\ Pending
    /\ Begin("convert_with_pandas")
    /\ ret' = pandas_extract(call.data, call.key_path)
    /\ UNCHANGED convVars

NextPath == ExtractNestedData \/ PandasExtract

SpecPath == InitPath /\ [][NextPath]_vars

(***************************************************************************)
(* Path resolution as the specification states it: the values a path       *)
(* leads to, segment by segment (no value when a segment does not resolve).*)
(***************************************************************************)
Children(cur, seg) ==
    IF IsDict(cur)
    THEN {cur.o[i][2] : i \in {j \in DOMAIN cur.o : cur.o[j][1] = seg}}
    ELSE IF IsList(cur)
    THEN {cur.a[i + 1] :
            i \in {j \in 0..(Len(cur.a) - 1) :
                      IsDecimal(seg) /\ ParseInt(seg) = j}}
    ELSE {}

RECURSIVE Reach(_, _)
Reach(cur, segs) ==
    IF Len(segs) = 0 THEN {cur}
    ELSE UNION {Reach(n, Tail(segs)) : n \in Children(cur, Head(segs))}

IsExtract == call.fn \in {"_extract_nested_data", "convert_with_pandas"}

docAB5 == JObj(<< <<kA, JObj(<< <<kB, JNum(5)>> >>)>> >>)
docA1020 == JObj(<< <<kA, JArr(<<JNum(10), JNum(20)>>)>> >>)

\* C2: path extraction follows the segments in order, by present key on an
\* object and by in-range integer index on an array; it returns the value
\* the path leads to and raises in every other case.  'a.b' on {a:{b:5}}
\* gives 5, 'a.z' fails, 'a.0' on {a:[10,20]} gives 10.
C2_PathResolution ==
    IsExtract =>
        /\ ret.ok => Reach(call.data, call.segs) = {ret.val}
        /\ ~ret.ok =>
              /\ Reach(call.data, call.segs) = {}
              /\ ret.err \in {"KeyError", "IndexError", "ValueError"}
        /\ (call.data = docAB5 /\ call.segs = <<kA, kB>>) => ret = Ok(JNum(5))
        /\ (call.data = docAB5 /\ call.segs = <<kA, kZ>>) => ~ret.ok
        /\ (call.data = docA1020 /\ call.segs = <<kA, <<"0">> >>)
              => ret = Ok(JNum(10))

C2_Witness ==
    /\ call.fn = "_extract_nested_data"
    /\ call.data = docA1020
    /\ call.key_path = <<"a", ".", "0">>
    /\ ret = Ok(JNum(10))

(***************************************************************************)
(* The two flatteners.                                                     *)
(***************************************************************************)
RECURSIVE Concat(_)
Concat(ss) == IF Len(ss) = 0 THEN <<>> ELSE Head(ss) \o Concat(Tail(ss))

\* new_key = f"{parent_key}{separator}{key}" if parent_key else key
NewKey(parent_key, separator, key) ==
    IF Len(parent_key) > 0 THEN parent_key \o separator \o key ELSE key

\* The parent key _flatten_dict gives element i (zero-based) of a list.
DictIndexKey(new_key, separator, i) == new_key \o separator \o IntToStr(i)

RECURSIVE flatten_dict(_, _, _)

\* the inner loop of _flatten_dict over the elements of a list value
FlattenDictList(value, separator, new_key) ==
    Concat([i \in DOMAIN value.a |->
              IF IsDict(value.a[i])
              THEN flatten_dict(value.a[i].o, separator,
                                DictIndexKey(new_key, separator, i - 1))
              ELSE << <<DictIndexKey(new_key, separator, i - 1),
                        value.a[i]>> >>])

\* what one (key, value) pair of data adds to items in _flatten_dict
FlattenDictEntry(key, value, separator, parent_key) ==
    LET new_key == NewKey(parent_key, separator, key)
    IN  IF IsDict(value) THEN flatten_dict(value.o, separator, new_key)
        ELSE IF IsList(value) THEN FlattenDictList(value, separator, new_key)
        ELSE << <<new_key, value>> >>

flatten_dict(data, separator, parent_key) ==
    DictFromItems(Concat([i \in DOMAIN data |->
        FlattenDictEntry(data[i][1], data[i][2], separator, parent_key)]))

\* The parent key flatten_json gives element idx of a list of dicts.
JsonIndexKeySep(new_key, sep, idx) == new_key \o sep \o IntToStr(idx)

JsonIndexKey(new_key, sep, idx) ==
    new_key \o <<"[">> \o IntToStr(idx) \o <<"]">>

\* all(isinstance(i, dict) for i in v)
AllDicts(v) == \A i \in DOMAIN v.a : IsDict(v.a[i])

JoinListRepr(v) == JoinWith(<<",">>, [i \in DOMAIN v.a |-> PyRepr(v.a[i])])

\* ','.join(map(str, v))
JoinList(v) == JoinWith(<<",">>, [i \in DOMAIN v.a |-> PyStr(v.a[i])])

RECURSIVE flatten_json(_, _, _)

\* what one (k, v) pair of nested_json adds to items in flatten_json
FlattenJsonEntry(k, v, parent_key, sep) ==
    LET new_key == NewKey(parent_key, sep, k)
    IN  IF IsDict(v) THEN flatten_json(v.o, new_key, sep)
        ELSE IF IsList(v)
        THEN IF AllDicts(v)
             THEN Concat([i \in DOMAIN v.a |->
                            flatten_json(v.a[i].o,
                                         JsonIndexKey(new_key, sep, i - 1),
                                         sep)])
             ELSE << <<new_key, JStr(JoinList(v))>> >>
        ELSE << <<new_key, v>> >>

flatten_json(nested_json, parent_key, sep) ==
    DictUpdate(<<>>, Concat([i \in DOMAIN nested_json |->
        FlattenJsonEntry(nested_json[i][1], nested_json[i][2],
                         parent_key, sep)]))

(***************************************************************************)
(* Inputs of the flatteners: object-rooted documents.                      *)
(***************************************************************************)
kAdotB == <<"a", ".", "b">>
kItems == <<"i", "t", "e", "m", "s">>
kTags == <<"t", "a", "g", "s">>
kN == <<"n">>
sX == JStr(<<"x">>)
sY == JStr(<<"y">>)
sZ == JStr(<<"z">>)

FlatKeys == {kA, kB, kAdotB}
Scalars == {JNull, JBool(TRUE), JNum(1), sX}
ShallowVals ==
    Scalars \cup {JArr(<<JNum(1), sX>>), JObj(<< <<kB, JNum(1)>> >>)}

docItems ==
    JObj(<< <<kItems, JArr(<<JObj(<< <<kN, JNum(1)>> >>),
                             JObj(<< <<kN, JNum(2)>> >>)>>)>> >>)
docTags == JObj(<< <<kTags, JArr(<<sX, sY, sZ>>)>> >>)

FlattenDocs ==
    {JObj(<< <<k, v>> >>) :
        k \in FlatKeys, v \in Chain(FlatKeys, {JNum(1)}, MaxDepth - 1)}
      \cup {JObj(<< <<k, w>> >>) :
              k \in {kA},
              w \in Wide(FlatKeys, Chain({kB}, {JNum(1), sX}, 1), MaxArr)}
      \cup {JObj(o) : o \in DictsUpTo(FlatKeys, ShallowVals, MaxKeys)}
      \cup {docItems, docTags}

Separators == {<<"_">>, <<".">>}

InitFlatten ==
    /\ \E doc \in FlattenDocs, sep \in Separators :
          call = [fn |-> "none", doc |-> doc, sep |-> sep]
    /\ InitRest

FlattenDict ==
    /\ Pending
    /\ Begin("_flatten_dict")
    /\ ret' = Ok(flatten_dict(call.doc.o, call.sep, <<>>))
    /\ UNCHANGED convVars

FlattenJson ==
    /\ Pending
    /\ Begin("flatten_json")
    /\ ret' = Ok(flatten_json(call.doc.o, <<>>, call.sep))
    /\ UNCHANGED convVars

NextFlatten == FlattenDict \/ FlattenJson

SpecFlatten == InitFlatten /\ [][NextFlatten]_vars

IsFlatten == call.fn \in {"_flatten_dict", "flatten_json"}

\* C1: after flattening, every value of the record is a scalar (a joined
\* list is a string): none is an array or an object.
C1_NoCompositeValue ==
    IsFlatten => \A i \in DOMAIN ret.val : IsScalar(ret.val[i][2])

(***************************************************************************)
(* Arrays of objects and arrays with a scalar, at the root of a document.  *)
(***************************************************************************)
IsPrefix(p, s) == Len(p) <= Len(s) /\ SubSeq(s, 1, Len(p)) = p

ObjectArray(v) ==
    IsList(v) /\ Len(v.a) > 0 /\ \A i \in DOMAIN v.a : IsDict(v.a[i])

ScalarArray(v) == IsList(v) /\ \E i \in DOMAIN v.a : ~IsDict(v.a[i])

\* The function under call applied to one object with a parent key.
FlattenAs(fn, obj, parent_key, sep) ==
    IF fn = "_flatten_dict" THEN flatten_dict(obj, sep, parent_key)
    ELSE flatten_json(obj, parent_key, sep)

\* The flattening of a document whose only entry is a list of objects,
\* given the parent key of each element.
ElementsFlattened(fn, v, sep, parent(_)) ==
    DictFromItems(Concat([i \in DOMAIN v.a |->
        FlattenAs(fn, v.a[i].o, parent(i - 1), sep)]))

itemsDotted ==
    << << <<"i", "t", "e", "m", "s", ".", "0", ".", "n">>, JNum(1)>>,
       << <<"i", "t", "e", "m", "s", ".", "1", ".", "n">>, JNum(2)>> >>

itemsBracket ==
    << << <<"i", "t", "e", "m", "s", "[", "0", "]", ".", "n">>, JNum(1)>>,
       << <<"i", "t", "e", "m", "s", "[", "1", "]", ".", "n">>, JNum(2)>> >>

\* C3 as stated: both flatteners recurse into element i of a list of
\* objects with parent key newKey + separator + i, and flatten_json with
\* '.' maps {"items":[{"n":1},{"n":2}]} to {"items.0.n":1,"items.1.n":2}.
C3_SeparatorIndexEverywhere ==
    IsFlatten =>
        /\ (Len(call.doc.o) = 1 /\ ObjectArray(call.doc.o[1][2])) =>
              LET k == call.doc.o[1][1]
                  parent(i) == k \o call.sep \o IntToStr(i)
              IN  ret.val = ElementsFlattened(call.fn, call.doc.o[1][2],
                                              call.sep, parent)
        /\ (call.fn = "flatten_json" /\ call.doc = docItems
                /\ call.sep = <<".">>) => DictEq(ret.val, itemsDotted)

\* C3 amended: _flatten_dict recurses into element i with parent key
\* newKey + separator + i (with '.', the items document gives
\* {"items.0.n":1,"items.1.n":2}); flatten_json recurses with parent key
\* newKey + "[" + i + "]" (it gives {"items[0].n":1,"items[1].n":2}).
C3_IndexedParentKey ==
    IsFlatten =>
        /\ (Len(call.doc.o) = 1 /\ ObjectArray(call.doc.o[1][2])) =>
              LET k == call.doc.o[1][1]
                  parent(i) ==
                      IF call.fn = "_flatten_dict"
                      THEN k \o call.sep \o IntToStr(i)
                      ELSE k \o <<"[">> \o IntToStr(i) \o <<"]">>
              IN  ret.val = ElementsFlattened(call.fn, call.doc.o[1][2],
                                              call.sep, parent)
        /\ (call.doc = docItems /\ call.sep = <<".">>) =>
              IF call.fn = "_flatten_dict"
              THEN DictEq(ret.val, itemsDotted)
              ELSE DictEq(ret.val, itemsBracket)

C3_Witness ==
    /\ call.fn = "flatten_json"
    /\ call.doc = docItems
    /\ call.sep = <<".">>
    /\ DictEq(ret.val, itemsBracket)

tagsJoined == << <<kTags, JStr(<<"x", ",", "y", ",", "z">>)>> >>

\* C4: flatten_json stores a list holding a non-object element as one
\* entry under newKey, the comma-join of str() of its elements in order,
\* and makes no indexed key for it (the entry stands unless a later entry
\* of the same object flattens to the same key and overwrites it).
C4_ScalarArrayJoined ==
    call.fn = "flatten_json" =>
        /\ \A i \in DOMAIN call.doc.o :
              LET k == call.doc.o[i][1]
                  v == call.doc.o[i][2]
                  later == {j \in DOMAIN call.doc.o : j > i}
                  joined == JoinWith(<<",">>,
                                     [e \in DOMAIN v.a |-> PyStr(v.a[e])])
              IN  ScalarArray(v) =>
                    /\ DictHas(ret.val, k)
                    /\ (\A j \in later :
                          ~DictHas(flatten_json(<<call.doc.o[j]>>, <<>>,
                                                call.sep), k))
                          => DictGet(ret.val, k) = JStr(joined)
                    /\ \A key \in DictKeys(ret.val) :
                          /\ ~IsPrefix(k \o <<"[">>, key)
                          /\ \A d \in DecimalChars :
                                ~IsPrefix(k \o call.sep \o <<d>>, key)
        /\ call.doc = docTags => DictEq(ret.val, tagsJoined)

C4_Witness ==
    /\ call.fn = "flatten_json"
    /\ call.doc = docTags
    /\ ret.val = tagsJoined

(***************************************************************************)
(* Key filtering.                                                          *)
(***************************************************************************)
\* One iteration of the loop of _get_nested_value: dicts only.
GetNestedStep(cur, key) ==
    IF IsDict(cur) /\ DictHas(cur.o, key)
    THEN Ok(DictGet(cur.o, key))
    ELSE Raise("KeyError")

RECURSIVE GetNestedLoop(_, _)
GetNestedLoop(cur, keys) ==
    IF Len(keys) = 0 THEN Ok(cur)
    ELSE LET r == GetNestedStep(cur, keys[1])
         IN  IF r.ok THEN GetNestedLoop(r.val, Tail(keys)) ELSE r

get_nested_value(data, key_path) == GetNestedLoop(data, SplitDots(key_path))

\* '.' in key
HasDot(key) == \E i \in DOMAIN key : key[i] = "."

StoreNoneOmitted(filtered_item, key) == filtered_item

\* filtered_item[key] = None
StoreNone(filtered_item, key) == DictSet(filtered_item, key, JNull)

\* The loop over target_keys for one item: the filtered item, or the
\* exception that escapes the except clause.
RECURSIVE FilterItemLoop(_, _, _)
FilterItemLoop(item, target_keys, filtered_item) ==
    IF Len(target_keys) = 0 THEN Ok(filtered_item)
    ELSE LET key == Head(target_keys)
             rest == Tail(target_keys)
         IN  IF DictHas(item, key)
             THEN FilterItemLoop(item, rest,
                      DictSet(filtered_item, key, DictGet(item, key)))
             ELSE IF HasDot(key)
             THEN LET r == get_nested_value(JObj(item), key)
                  IN  IF r.ok
                      THEN FilterItemLoop(item, rest,
                               DictSet(filtered_item, key, r.val))
                      ELSE IF r.err \in {"KeyError", "TypeError"}
                      THEN FilterItemLoop(item, rest,
                               StoreNone(filtered_item, key))
                      ELSE r
             ELSE FilterItemLoop(item, rest, StoreNone(filtered_item, key))

RECURSIVE FilterLoop(_, _, _)
FilterLoop(data_list_in, target_keys, filtered_data) ==
    IF Len(data_list_in) = 0 THEN Ok(filtered_data)
    ELSE LET r == FilterItemLoop(Head(data_list_in), target_keys, <<>>)
         IN  IF r.ok
             THEN FilterLoop(Tail(data_list_in), target_keys,
                             Append(filtered_data, r.val))
             ELSE r

filter_by_keys(data_list_in, target_keys) ==
    FilterLoop(data_list_in, target_keys, <<>>)

(***************************************************************************)
(* Inputs of key filtering: lists of records and lists of requested keys.  *)
(***************************************************************************)
MaxRecords == 2
MaxTargets == 2

FilterVals ==
    {JNull, JNum(1), JObj(<< <<kB, JNum(5)>> >>), JArr(<<JNum(10), JNum(20)>>),
     JObj(<< <<kB, JArr(<<JNum(10), JNum(20)>>)>> >>)}

FilterRecords == DictsUpTo({kA, kAdotB}, FilterVals, MaxKeys)

FewRecords ==
    {<< <<kA, JNum(1)>> >>,
     << <<kA, JObj(<< <<kB, JNum(5)>> >>)>> >>,
     << <<kA, JArr(<<JNum(10), JNum(20)>>)>>, <<kAdotB, JNum(1)>> >>}

RecordLists ==
    {<<r>> : r \in FilterRecords} \cup SeqsUpTo(FewRecords, MaxRecords)

TargetKeys ==
    {kA, kZ, kAdotB, <<"a", ".", "z">>, <<"a", ".", "0">>,
     <<"a", ".", "b", ".", "0">>}

TargetLists == SeqsUpTo(TargetKeys, MaxTargets)

InitFilter ==
    /\ \E records \in RecordLists, target_keys \in TargetLists :
          call = [fn |-> "none", records |-> records,
                  target_keys |-> target_keys]
    /\ InitRest

FilterByKeys ==
    /\ Pending
    /\ Begin("_filter_by_keys")
    /\ ret' = filter_by_keys(call.records, call.target_keys)
    /\ UNCHANGED convVars

NextFilter == FilterByKeys

SpecFilter == InitFilter /\ [][NextFilter]_vars

\* C5: key filtering returns one record per input record, each with
\* exactly the requested keys; a requested key that is neither present
\* verbatim nor resolvable as a dotted path maps to null; nothing is raised.
C5_FilterKeepsEveryKey ==
    call.fn = "_filter_by_keys" =>
        /\ ret.ok
        /\ Len(ret.val) = Len(call.records)
        /\ \A i \in DOMAIN call.records :
              /\ DictKeys(ret.val[i]) = Range(call.target_keys)
              /\ \A key \in Range(call.target_keys) :
                    (/\ ~DictHas(call.records[i], key)
                     /\ Reach(JObj(call.records[i]), SplitDots(key)) = {})
                        => DictGet(ret.val[i], key) = JNull

C5_Witness ==
    /\ call.fn = "_filter_by_keys"
    /\ call.records = << << <<kA, JObj(<< <<kB, JNum(5)>> >>)>> >> >>
    /\ call.target_keys = <<kZ, <<"a", ".", "z">> >>
    /\ ret = Ok(<< << <<kZ, JNull>>, << <<"a", ".", "z">>, JNull>> >> >>)

\* C6: a requested dotted key that is not present verbatim is resolved
\* with the rules of top-level extraction (objects by key, arrays by
\* in-range index) and the value found is stored under the requested key;
\* null is stored only when the path does not resolve.
C6_DottedKeyResolvedLikeExtraction ==
    call.fn = "_filter_by_keys" =>
        \A i \in DOMAIN call.records :
            \A key \in Range(call.target_keys) :
                (~DictHas(call.records[i], key) /\ HasDot(key)) =>
                    LET found == Reach(JObj(call.records[i]), SplitDots(key))
                    IN  /\ ret.ok
                        /\ DictHas(ret.val[i], key)
                        /\ IF found = {}
                           THEN DictGet(ret.val[i], key) = JNull
                           ELSE found = {DictGet(ret.val[i], key)}

(***************************************************************************)
(* Loading, normalisation and the CSV writer.                              *)
(***************************************************************************)
\* An input path holds a JSON document, text that is not JSON, or nothing.
FileOf(doc) == [state |-> "json", doc |-> doc]
MalformedFile == [state |-> "malformed"]
MissingFile == [state |-> "missing"]

load_json_file_or_empty(file) ==
    IF file.state = "json" THEN Ok(file.doc) ELSE Ok(JObj(<<>>))

load_json_file(file) ==
    IF file.state = "json" THEN Ok(file.doc)
    ELSE IF file.state = "malformed" THEN Raise("ValueError")
    ELSE Raise("FileNotFoundError")

kValue == <<"v", "a", "l", "u", "e">>

normalize_wrapping_all(data) ==
    IF IsList(data)
    THEN [i \in DOMAIN data.a |-> << <<kValue, data.a[i]>> >>]
    ELSE << << <<kValue, data>> >> >>

\* The dicts of _normalize_to_list's result, in order.
normalize_to_list(data) ==
    IF IsList(data)
    THEN [i \in DOMAIN data.a |->
            IF IsDict(data.a[i]) THEN data.a[i].o
            ELSE << <<kValue, data.a[i]>> >>]
    ELSE IF IsDict(data) THEN <<data.o>>
    ELSE << << <<kValue, data>> >> >>

\* all_keys: the union of the keys of all dicts
AllKeys(records) == UNION {DictKeys(records[i]) : i \in DOMAIN records}

CommonKeys(records) ==
    {k \in AllKeys(records) : \A i \in DOMAIN records : DictHas(records[i], k)}

\* sorted(...) of a set of strings
RECURSIVE SortedSeq(_)
SortedSeq(S) ==
    IF S = {} THEN <<>>
    ELSE LET m == CHOOSE x \in S : \A y \in S \ {x} : StrLess(x, y)
         IN  <<m>> \o SortedSeq(S \ {m})

FieldNamesOfCommonKeys(records) == SortedSeq(CommonKeys(records))

\* fieldnames = sorted(list(all_keys))
FieldNames(records) == SortedSeq(AllKeys(records))

\* The text csv.writer writes for a value: nothing for None, str() else.
CellText(v) == IF v.t = "null" THEN <<>> ELSE PyStr(v)

\* DictWriter's row for a dict: rowdict.get(key, '') per field name.
CsvRow(fieldnames, item) ==
    [j \in DOMAIN fieldnames |->
        IF DictHas(item, fieldnames[j])
        THEN CellText(DictGet(item, fieldnames[j]))
        ELSE <<>>]

\* What the opened file holds after writeheader and writerows.
CsvTable(fieldnames, records) ==
    [exists |-> TRUE, header |-> fieldnames,
     rows |-> [i \in DOMAIN records |-> CsvRow(fieldnames, records[i])]]

NoDataWarning == "No data to write to CSV"

write_to_csv_unguarded(records, old_file, old_warnings) ==
    [file |-> CsvTable(FieldNames(records), records),
     warnings |-> old_warnings]

\* _write_to_csv: the file at output_path and the warnings afterwards.
write_to_csv(records, old_file, old_warnings) ==
    IF Len(records) = 0
    THEN [file |-> old_file, warnings |-> Append(old_warnings, NoDataWarning)]
    ELSE [file |-> CsvTable(FieldNames(records), records),
          warnings |-> old_warnings]

\* A file that was at the output path before the call.
OldFile == [exists |-> TRUE, header |-> <<kZ>>, rows |-> <<>>]

(***************************************************************************)
(* convert_with_key_mapping.                                               *)
(***************************************************************************)
MapPairPlaceholder(mapped_item, item, old_key, new_key) ==
    IF DictHas(item, old_key)
    THEN DictSet(mapped_item, new_key, DictGet(item, old_key))
    ELSE DictSet(mapped_item, new_key, JNull)

\* if old_key in item: mapped_item[new_key] = item[old_key]
MapPair(mapped_item, item, old_key, new_key) ==
    IF DictHas(item, old_key)
    THEN DictSet(mapped_item, new_key, DictGet(item, old_key))
    ELSE mapped_item

RECURSIVE MapItemLoop(_, _, _)
MapItemLoop(item, key_mapping, mapped_item) ==
    IF Len(key_mapping) = 0 THEN mapped_item
    ELSE MapItemLoop(item, Tail(key_mapping),
                     MapPair(mapped_item, item, key_mapping[1][1],
                             key_mapping[1][2]))

apply_key_mapping(records, key_mapping) ==
    [i \in DOMAIN records |-> MapItemLoop(records[i], key_mapping, <<>>)]

kX == <<"x">>
kY == <<"y">>

MapRecords == DictsUpTo({kA, kB}, {JNum(1), JNum(2)}, MaxKeys)

FewMapRecords ==
    {<< <<kA, JNum(1)>>, <<kB, JNum(2)>> >>, << <<kB, JNum(1)>> >>}

MapDocs ==
    {JObj(r) : r \in MapRecords}
      \cup {JArr(<<JObj(r)>>) : r \in MapRecords}
      \cup {JArr([i \in DOMAIN a |-> JObj(a[i])]) :
              a \in SeqsUpTo(FewMapRecords, MaxRecords)}
      \cup {JNum(1), JArr(<<JNum(1), JObj(<< <<kA, JNum(2)>> >>)>>)}

\* key_mapping: a dict from old keys to new keys
KeyMappings ==
    {m \in SeqsUpTo({kA, kB, kZ} \X {kX, kY}, MaxKeys) :
        \A i, j \in DOMAIN m : m[i][1] = m[j][1] => i = j}

InitMapping ==
    /\ \E file \in {FileOf(d) : d \in MapDocs} \cup {MalformedFile, MissingFile},
          key_mapping \in KeyMappings :
          call = [fn |-> "none", file |-> file, key_mapping |-> key_mapping]
    /\ InitRest

ConvertWithKeyMapping ==
    /\ Pending
    /\ Begin("convert_with_key_mapping")
    /\ LET loaded == load_json_file(call.file)
       IN  IF ~loaded.ok
           THEN /\ ret' = loaded
                /\ UNCHANGED convVars
           ELSE LET mapped_data ==
                        apply_key_mapping(normalize_to_list(loaded.val),
                                          call.key_mapping)
                    written == write_to_csv(mapped_data, output_file, warnings)
                IN  /\ json_data' = loaded.val
                    /\ data_list' = mapped_data
                    /\ output_file' = written.file
                    /\ warnings' = written.warnings
                    /\ ret' = Ok("output_csv_path")
                    /\ UNCHANGED <<pc, mergeVars>>

NextMapping == ConvertWithKeyMapping

SpecMapping == InitMapping /\ [][NextMapping]_vars

IsMapped == call.fn = "convert_with_key_mapping" /\ ret.ok

\* The new keys of the pairs whose old key the record holds.
MappedKeys(record, key_mapping) ==
    {key_mapping[p][2] :
        p \in {q \in DOMAIN key_mapping : DictHas(record, key_mapping[q][1])}}

\* C7 as stated: every pair whose old key is present gives the entry
\* newKey -> record[oldKey]; absent pairs give no key; no other key appears.
C7_EveryPresentPairIsAnEntry ==
    IsMapped =>
        LET records == normalize_to_list(call.file.doc)
        IN  /\ Len(data_list) = Len(records)
            /\ \A i \in DOMAIN records :
                  /\ DictKeys(data_list[i])
                        = MappedKeys(records[i], call.key_mapping)
                  /\ \A p \in DOMAIN call.key_mapping :
                        DictHas(records[i], call.key_mapping[p][1]) =>
                            DictGet(data_list[i], call.key_mapping[p][2])
                              = DictGet(records[i], call.key_mapping[p][1])

\* C7 amended: the keys of each renamed record are the new keys of the
\* pairs whose old key is present (absent pairs give no key, unmapped keys
\* do not appear), and each holds record[oldKey] of the last such pair, in
\* mapping order, that names it.
C7_LastPresentPairWins ==
    IsMapped =>
        LET records == normalize_to_list(call.file.doc)
        IN  /\ Len(data_list) = Len(records)
            /\ \A i \in DOMAIN records :
                  /\ DictKeys(data_list[i])
                        = MappedKeys(records[i], call.key_mapping)
                  /\ \A p \in DOMAIN call.key_mapping :
                        (/\ DictHas(records[i], call.key_mapping[p][1])
                         /\ \A q \in DOMAIN call.key_mapping :
                               (/\ q > p
                                /\ call.key_mapping[q][2]
                                      = call.key_mapping[p][2])
                                  => ~DictHas(records[i],
                                              call.key_mapping[q][1]))
                            => DictGet(data_list[i], call.key_mapping[p][2])
                                 = DictGet(records[i], call.key_mapping[p][1])

C7_Witness ==
    /\ IsMapped
    /\ call.file = FileOf(JArr(<<JObj(<< <<kA, JNum(1)>>, <<kB, JNum(2)>> >>)>>))
    /\ call.key_mapping = << <<kA, kX>>, <<kZ, kY>> >>
    /\ data_list = << << <<kX, JNum(1)>> >> >>

(***************************************************************************)
(* json_to_csv, and the calls of the two CSV writers.                      *)
(***************************************************************************)
\* json_to_csv: the outcome and the file at csv_file afterwards.  A dict is
\* wrapped in a list; flatten_json fails on anything that is not a dict
\* (AttributeError), iterating a number, a boolean or None fails
\* (TypeError), and there is no guard for an empty list.
json_to_csv(doc, old_file) ==
    LET data == IF IsDict(doc) THEN <<doc>>
                ELSE IF IsList(doc) THEN doc.a
                ELSE IF doc.t = "str" THEN [i \in DOMAIN doc.s |-> JStr(<<doc.s[i]>>)]
                ELSE <<>>
    IN  IF ~IsDict(doc) /\ ~IsList(doc) /\ doc.t # "str"
        THEN [ret |-> Raise("TypeError"), file |-> old_file]
        ELSE IF \E i \in DOMAIN data : ~IsDict(data[i])
        THEN [ret |-> Raise("AttributeError"), file |-> old_file]
        ELSE LET flattened_data ==
                     [i \in DOMAIN data |-> flatten_json(data[i].o, <<>>, <<".">>)]
                 fieldnames == SortedSeq(AllKeys(flattened_data))
             IN  [ret |-> Ok(JNull),
                  file |-> CsvTable(fieldnames, flattened_data)]

kAB == <<"a", "b">>
kUnderA == <<"_", "a">>
kT == <<"T">>

CsvKeys == {kA, kB, kAB, kUnderA, kT}
CsvVals == {JNull, JNum(1), sX}
CsvRecords == DictsUpTo(CsvKeys, CsvVals, MaxKeys)

FewCsvRecords ==
    {<< <<kA, JNum(1)>> >>,
     << <<kB, JNum(2)>> >>,
     << <<kB, JNull>>, <<kA, JObj(<< <<kB, JNum(1)>> >>)>> >>,
     << <<kT, sX>>, <<kUnderA, JBool(TRUE)>> >>}

CsvRecordLists ==
    {<<r>> : r \in CsvRecords} \cup SeqsUpTo(FewCsvRecords, MaxRecords)

\* The documents json_to_csv loads that hold the given records.
DocsOf(records) ==
    {JArr([i \in DOMAIN records |-> JObj(records[i])])}
      \cup (IF Len(records) = 1 THEN {JObj(records[1])} ELSE {})
      \cup (IF Len(records) = 0 THEN {JNum(1), JArr(<<sX>>)} ELSE {})

InitCsv ==
    /\ \E records \in CsvRecordLists :
          \E doc \in DocsOf(records) :
              \E old_file \in {NoFile, OldFile} :
                  /\ call = [fn |-> "none", records |-> records,
                             doc |-> doc, old_file |-> old_file]
                  /\ output_file = old_file
    /\ ret = NoRet
    /\ pc = "idle"
    /\ json_data = JNull
    /\ data_list = <<>>
    /\ warnings = <<>>
    /\ merged_data = NoneValue
    /\ file_idx = 0

WriteToCsv ==
    /\ Pending
    /\ Begin("_write_to_csv")
    /\ LET written == write_to_csv(call.records, output_file, warnings)
       IN  /\ output_file' = written.file
           /\ warnings' = written.warnings
    /\ data_list' = call.records
    /\ ret' = Ok(JNull)
    /\ UNCHANGED <<pc, json_data, mergeVars>>

JsonToCsv ==
    /\ Pending
    /\ Begin("json_to_csv")
    /\ LET done == json_to_csv(call.doc, output_file)
       IN  /\ output_file' = done.file
           /\ ret' = done.ret
           /\ data_list' =
                 IF done.ret.ok
                 THEN LET data == normalize_to_list(call.doc)
                      IN  [i \in DOMAIN data |->
                              flatten_json(data[i], <<>>, <<".">>)]
                 ELSE data_list
    /\ UNCHANGED <<pc, json_data, warnings, mergeVars>>

NextCsv == WriteToCsv \/ JsonToCsv

SpecCsv == InitCsv /\ [][NextCsv]_vars

IsWritten ==
    /\ call.fn \in {"_write_to_csv", "json_to_csv"}
    /\ ret.ok
    /\ Len(data_list) > 0

\* C8: for a non-empty sequence of records the header is the ascending
\* sorted union of the keys of all records, each row has one cell per
\* header key in header order, and a missing key or a null value gives an
\* empty cell.  [{a:1},{b:2}] gives header [a,b], rows [1,""] and ["",2].
C8_HeaderIsSortedUnion ==
    IsWritten =>
        LET h == output_file.header
        IN  /\ output_file.exists
            /\ Range(h) = UNION {DictKeys(data_list[i]) : i \in DOMAIN data_list}
            /\ \A i, j \in DOMAIN h : i < j => StrLess(h[i], h[j])
            /\ Len(output_file.rows) = Len(data_list)
            /\ \A i \in DOMAIN data_list :
                  /\ Len(output_file.rows[i]) = Len(h)
                  /\ \A j \in DOMAIN h :
                        IF DictHas(data_list[i], h[j])
                              /\ DictGet(data_list[i], h[j]) # JNull
                        THEN output_file.rows[i][j]
                                = PyStr(DictGet(data_list[i], h[j]))
                        ELSE output_file.rows[i][j] = <<>>
            /\ data_list = << << <<kA, JNum(1)>> >>, << <<kB, JNum(2)>> >> >>
                  => /\ h = <<kA, kB>>
                     /\ output_file.rows = << << <<"1">>, <<>> >>,
                                              << <<>>, <<"2">> >> >>

C8_Witness ==
    /\ call.fn = "_write_to_csv"
    /\ call.records = << << <<kA, JNum(1)>> >>, << <<kB, JNum(2)>> >> >>
    /\ output_file = [exists |-> TRUE, header |-> <<kA, kB>>,
                      rows |-> << << <<"1">>, <<>> >>, << <<>>, <<"2">> >> >>]

(***************************************************************************)
(* convert_json_to_csv, statement by statement.                            *)
(***************************************************************************)
\* An optional argument: None, or a value (falsy when it is empty).
None == [some |-> FALSE]
Some(v) == [some |-> TRUE, v |-> v]
Truthy(opt) == opt.some /\ Len(opt.v) > 0

ConvVals ==
    {JNum(1), JObj(<< <<kB, JNum(5)>> >>), JArr(<<JNum(10), JNum(20)>>),
     JArr(<<>>), JObj(<<>>)}

ConvFiles ==
    {FileOf(d) : d \in Wide({kA}, ConvVals, MaxArr) \cup {JNum(1)}}
      \cup {MalformedFile, MissingFile}

ConvTargetOpts ==
    {None, Some(<<>>), Some(<<kA>>), Some(<<kAdotB, kZ>>)}

ConvPathOpts ==
    {None, Some(<<>>), Some(kA), Some(<<"a", ".", "0">>), Some(kZ)}

Init ==
    /\ \E file \in ConvFiles, target_keys \in ConvTargetOpts,
          nested_key_path \in ConvPathOpts, flatten_nested \in BOOLEAN,
          old_file \in {NoFile, OldFile} :
          /\ call = [fn |-> "none", file |-> file,
                     target_keys |-> target_keys,
                     nested_key_path |-> nested_key_path,
                     flatten_nested |-> flatten_nested,
                     old_file |-> old_file]
          /\ output_file = old_file
    /\ ret = NoRet
    /\ pc = "idle"
    /\ json_data = JNull
    /\ data_list = <<>>
    /\ warnings = <<>>
    /\ merged_data = NoneValue
    /\ file_idx = 0

\* json_data = self._load_json_file(json_file_path)
ConvLoad ==
    /\ Pending
    /\ pc = "idle"
    /\ Begin("convert_json_to_csv")
    /\ LET loaded == load_json_file(call.file)
       IN  IF loaded.ok
           THEN /\ json_data' = loaded.val
                /\ pc' = "extract"
                /\ UNCHANGED ret
           ELSE /\ ret' = loaded
                /\ pc' = "failed"
                /\ UNCHANGED json_data
    /\ UNCHANGED <<data_list, output_file, warnings, mergeVars>>

\* if nested_key_path: json_data = self._extract_nested_data(...)
ConvExtract ==
    /\ pc = "extract"
    /\ IF Truthy(call.nested_key_path)
       THEN LET r == extract_nested_data(json_data, call.nested_key_path.v)
            IN  IF r.ok
                THEN /\ json_data' = r.val
                     /\ pc' = "normalize"
                     /\ UNCHANGED ret
                ELSE /\ ret' = r
                     /\ pc' = "failed"
                     /\ UNCHANGED json_data
       ELSE /\ pc' = "normalize"
            /\ UNCHANGED <<json_data, ret>>
    /\ UNCHANGED <<call, data_list, output_file, warnings, mergeVars>>

\* data_list = self._normalize_to_list(json_data)
ConvNormalize ==
    /\ pc = "normalize"
    /\ data_list' = normalize_to_list(json_data)
    /\ pc' = "filter"
    /\ UNCHANGED <<call, ret, json_data, output_file, warnings, mergeVars>>

\* if target_keys: data_list = self._filter_by_keys(data_list, target_keys)
ConvFilter ==
    /\ pc = "filter"
    /\ IF Truthy(call.target_keys)
       THEN LET r == filter_by_keys(data_list, call.target_keys.v)
            IN  IF r.ok
                THEN /\ data_list' = r.val
                     /\ pc' = "flatten"
                     /\ UNCHANGED ret
                ELSE /\ ret' = r
                     /\ pc' = "failed"
                     /\ UNCHANGED data_list
       ELSE /\ pc' = "flatten"
            /\ UNCHANGED <<data_list, ret>>
    /\ UNCHANGED <<call, json_data, output_file, warnings, mergeVars>>

\* self._flatten_nested_objects(data_list), separator '_'
flatten_nested_objects(records) ==
    [i \in DOMAIN records |-> flatten_dict(records[i], <<"_">>, <<>>)]

\* if flatten_nested: data_list = self._flatten_nested_objects(data_list)
ConvFlatten ==
    /\ pc = "flatten"
    /\ data_list' = IF call.flatten_nested
                    THEN flatten_nested_objects(data_list)
                    ELSE data_list
    /\ pc' = "write"
    /\ UNCHANGED <<call, ret, json_data, output_file, warnings, mergeVars>>

\* self._write_to_csv(data_list, output_csv_path); return str(output_csv_path)
ConvWrite ==
    /\ pc = "write"
    /\ LET written == write_to_csv(data_list, output_file, warnings)
       IN  /\ output_file' = written.file
           /\ warnings' = written.warnings
    /\ ret' = Ok("output_csv_path")
    /\ pc' = "done"
    /\ UNCHANGED <<call, json_data, data_list, mergeVars>>

Next ==
    \/ ConvLoad
    \/ ConvExtract
    \/ ConvNormalize
    \/ ConvFilter
    \/ ConvFlatten
    \/ ConvWrite

Spec == Init /\ [][Next]_vars

\* C9: when the records handed to _write_to_csv are none (an empty array
\* as input, say), the output file is neither created nor modified, a
\* warning is logged and convert_json_to_csv returns normally.
C9_EmptyWritesNothing ==
    (call.fn = "convert_json_to_csv" /\ pc = "done" /\ Len(data_list) = 0) =>
        /\ output_file = call.old_file
        /\ ret.ok
        /\ warnings = <<NoDataWarning>>

C9_Witness ==
    /\ call.fn = "convert_json_to_csv"
    /\ call.file = FileOf(JArr(<<>>))
    /\ call.old_file = OldFile
    /\ pc = "done"
    /\ output_file = OldFile
    /\ ret.ok

(***************************************************************************)
(* merge_json_files_from_folder, file by file.                             *)
(***************************************************************************)
MaxDocs == 2

MergeUpdateKeepFirst(merged, data) ==
    JObj(DictUpdate(data.o, merged.o))

\* merged_data.update(data)
MergeUpdate(merged, data) == JObj(DictUpdate(merged.o, data.o))

\* merged_data.extend(data)
MergeExtend(merged, data) == JArr(merged.a \o data.a)

\* raise ValueError(f"{file_path} ..."): the message holds file_path, the
\* file at this position of json_files.
RaiseNaming(e, file_path) == [ok |-> FALSE, err |-> e, file_path |-> file_path]

MergeStepSkipping(merged, data) ==
    IF merged = NoneValue
    THEN IF IsDict(data) \/ IsList(data) THEN Ok(data) ELSE Ok(merged)
    ELSE IF IsDict(merged) /\ IsDict(data)
    THEN Ok(JObj(DictUpdate(merged.o, data.o)))
    ELSE IF IsList(merged) /\ IsList(data)
    THEN Ok(JArr(merged.a \o data.a))
    ELSE Ok(merged)

\* One pass of the loop body on a loaded document: merged_data afterwards,
\* or the ValueError raised.
MergeStep(merged, data) ==
    LET started ==
            IF merged = NoneValue
            THEN IF IsDict(data) THEN Ok(JObj(<<>>))
                 ELSE IF IsList(data) THEN Ok(JArr(<<>>))
                 ELSE Raise("ValueError")
            ELSE Ok(merged)
    IN  IF ~started.ok THEN started
        ELSE IF IsDict(started.val) /\ IsDict(data)
        THEN Ok(MergeUpdate(started.val, data))
        ELSE IF IsList(started.val) /\ IsList(data)
        THEN Ok(MergeExtend(started.val, data))
        ELSE Raise("ValueError")

\* json.load(f) inside the loop: a decode error is not caught.
MergeLoad(file) ==
    IF file.state = "json" THEN Ok(file.doc) ELSE Raise("JSONDecodeError")

MergeVals ==
    {JNum(1), JObj(<< <<kA, JNum(1)>> >>), JObj(<< <<kB, JNum(2)>> >>)}

MergeDicts == {JObj(o) : o \in DictsUpTo({kA, kB}, MergeVals, MaxKeys)}
MergeLists == {JArr(a) : a \in SeqsUpTo(MergeVals, MaxArr)}

FewMergeFiles ==
    {FileOf(JObj(<< <<kA, JObj(<< <<kA, JNum(1)>> >>)>>, <<kB, JNum(1)>> >>)),
     FileOf(JObj(<< <<kA, JObj(<< <<kB, JNum(2)>> >>)>> >>)),
     FileOf(JArr(<<JNum(1), JNum(2)>>)),
     FileOf(JArr(<<JNum(2)>>)),
     FileOf(JNum(1)),
     MalformedFile}

\* The *.json files of the folder, in the order glob yields them.
MergeFolders ==
    SeqsUpTo(FewMergeFiles, MaxDocs)
      \cup {<<FileOf(d), FileOf(e)>> : d \in MergeDicts, e \in MergeDicts}
      \cup {<<FileOf(d), FileOf(e)>> : d \in MergeLists, e \in MergeLists}

InitMerge ==
    /\ \E json_files \in MergeFolders, old_file \in {NoFile, OldFile} :
          /\ call = [fn |-> "none", json_files |-> json_files,
                     old_file |-> old_file]
          /\ output_file = old_file
    /\ ret = NoRet
    /\ pc = "idle"
    /\ json_data = JNull
    /\ data_list = <<>>
    /\ warnings = <<>>
    /\ merged_data = NoneValue
    /\ file_idx = 0

\* json_files = list(folder.glob("*.json")); if not json_files: raise
MergeStart ==
    /\ Pending
    /\ pc = "idle"
    /\ Begin("merge_json_files_from_folder")
    /\ IF Len(call.json_files) = 0
       THEN /\ ret' = Raise("FileNotFoundError")
            /\ pc' = "failed"
            /\ UNCHANGED file_idx
       ELSE /\ pc' = "merge"
            /\ file_idx' = 1
            /\ UNCHANGED ret
    /\ UNCHANGED <<json_data, data_list, output_file, warnings, merged_data>>

\* one iteration of: for file_path in json_files
MergeFile ==
    /\ pc = "merge"
    /\ file_idx <= Len(call.json_files)
    /\ LET loaded == MergeLoad(call.json_files[file_idx])
           r == IF loaded.ok THEN MergeStep(merged_data, loaded.val)
                ELSE loaded
       IN  IF r.ok
           THEN /\ merged_data' = r.val
                /\ file_idx' = file_idx + 1
                /\ UNCHANGED <<ret, pc>>
           ELSE /\ ret' = IF loaded.ok THEN RaiseNaming(r.err, file_idx) ELSE r
                /\ pc' = "failed"
                /\ UNCHANGED <<merged_data, file_idx>>
    /\ UNCHANGED <<call, json_data, data_list, output_file, warnings>>

\* after the loop: json.dump(merged_data, f, indent=4)
MergeWrite ==
    /\ pc = "merge"
    /\ file_idx > Len(call.json_files)
    /\ output_file' = [exists |-> TRUE, json |-> merged_data]
    /\ ret' = Ok(JNull)
    /\ pc' = "done"
    /\ UNCHANGED <<call, json_data, data_list, warnings, merged_data, file_idx>>

NextMerge == MergeStart \/ MergeFile \/ MergeWrite

SpecMerge == InitMerge /\ [][NextMerge]_vars

IsMerge == call.fn = "merge_json_files_from_folder"

AllRoots(tag) ==
    /\ Len(call.json_files) > 0
    /\ \A i \in DOMAIN call.json_files :
          /\ call.json_files[i].state = "json"
          /\ call.json_files[i].doc.t = tag

\* The number of elements of the array documents before document i.
RECURSIVE Offset(_)
Offset(i) ==
    IF i = 1 THEN 0 ELSE Offset(i - 1) + Len(call.json_files[i - 1].doc.a)

\* C10: merging documents that all are objects maps each key to the value
\* of the last document holding it, whole (nested objects are replaced,
\* not merged); merging documents that all are arrays concatenates their
\* elements in discovery order, order and duplicates kept.
C10_MergeBySharedRootType ==
    IsMerge =>
        /\ AllRoots("obj") =>
              /\ pc # "failed"
              /\ pc = "done" =>
                    LET result == output_file.json
                        docs == [i \in DOMAIN call.json_files |->
                                    call.json_files[i].doc.o]
                    IN  /\ IsDict(result)
                        /\ DictKeys(result.o)
                              = UNION {DictKeys(docs[i]) : i \in DOMAIN docs}
                        /\ \A i \in DOMAIN docs :
                              \A k \in DictKeys(docs[i]) :
                                  (\A j \in DOMAIN docs :
                                      j > i => ~DictHas(docs[j], k))
                                    => DictGet(result.o, k) = DictGet(docs[i], k)
        /\ AllRoots("arr") =>
              /\ pc # "failed"
              /\ pc = "done" =>
                    LET result == output_file.json
                        n == Len(call.json_files)
                    IN  /\ IsList(result)
                        /\ Len(result.a)
                              = Offset(n) + Len(call.json_files[n].doc.a)
                        /\ \A i \in DOMAIN call.json_files :
                              \A j \in DOMAIN call.json_files[i].doc.a :
                                  result.a[Offset(i) + j]
                                    = call.json_files[i].doc.a[j]

C10_Witness ==
    /\ IsMerge
    /\ pc = "done"
    /\ call.json_files =
          <<FileOf(JObj(<< <<kA, JObj(<< <<kA, JNum(1)>> >>)>>,
                           <<kB, JNum(1)>> >>)),
            FileOf(JObj(<< <<kA, JObj(<< <<kB, JNum(2)>> >>)>> >>))>>
    /\ output_file.json =
          JObj(<< <<kA, JObj(<< <<kB, JNum(2)>> >>)>>, <<kB, JNum(1)>> >>)

\* The first position of json_files whose document does not load, has a
\* scalar root, or has a root type other than the first document's;
\* 0 when there is none.
FirstFailing ==
    LET fs == call.json_files
        bad == {i \in DOMAIN fs :
                   \/ fs[i].state # "json"
                   \/ fs[i].doc.t \notin {"obj", "arr"}
                   \/ fs[1].state = "json" /\ fs[i].doc.t # fs[1].doc.t}
    IN  IF bad = {} THEN 0 ELSE CHOOSE i \in bad : \A j \in bad : i <= j

\* The first failing document is one of a wrong root type.
RootTypeOffender ==
    /\ FirstFailing > 0
    /\ call.json_files[FirstFailing].state = "json"

\* C11: the output file is written only after every document has been
\* read and merged; with no documents the call fails and writes nothing;
\* with a document whose root is a scalar or differs in type from the first
\* document's, at any position, the loop never passes that document, the
\* call fails with a ValueError naming it and the output file stays as it
\* was before the call.
C11_WriteOnlyAfterAllMerged ==
    IsMerge =>
        /\ output_file # call.old_file =>
              /\ pc = "done"
              /\ file_idx = Len(call.json_files) + 1
              /\ FirstFailing = 0
        /\ Len(call.json_files) = 0 =>
              /\ pc = "failed"
              /\ ret = Raise("FileNotFoundError")
              /\ output_file = call.old_file
        /\ RootTypeOffender =>
              /\ pc \in {"merge", "failed"}
              /\ file_idx <= FirstFailing
              /\ output_file = call.old_file
              /\ pc = "failed" => ret = RaiseNaming("ValueError", FirstFailing)

C11_Witness ==
    /\ IsMerge
    /\ pc = "failed"
    /\ Len(call.json_files) = 2
    /\ call.json_files[1] =
          FileOf(JObj(<< <<kA, JObj(<< <<kB, JNum(2)>> >>)>> >>))
    /\ call.json_files[2] = FileOf(JArr(<<JNum(2)>>))
    /\ ret = RaiseNaming("ValueError", 2)
    /\ call.old_file = OldFile
    /\ output_file = OldFile

(***************************************************************************)
(* _combine_multiple_files, file by file.  combined_data is data_list.     *)
(***************************************************************************)
kSourceFile ==
    <<"_", "s", "o", "u", "r", "c", "e", "_", "f", "i", "l", "e">>

\* Path(json_file).name: what follows the last "/" of the path.
RECURSIVE PathName(_)
PathName(path) ==
    IF \E i \in DOMAIN path : path[i] = "/"
    THEN PathName(Tail(path))
    ELSE path

StampKeepingExisting(item, json_file) ==
    IF DictHas(item, kSourceFile) THEN item
    ELSE DictSet(item, kSourceFile, JStr(PathName(json_file)))

\* item['_source_file'] = Path(json_file).name
Stamp(item, json_file) == DictSet(item, kSourceFile, JStr(PathName(json_file)))

\* The loop body for one file: the stamped records of the file, or the
\* exception raised by loading or filtering.
CombineOne(json_file, file, target_keys) ==
    LET loaded == load_json_file(file)
    IN  IF ~loaded.ok THEN loaded
        ELSE LET normalized == normalize_to_list(loaded.val)
                 filtered == IF Truthy(target_keys)
                             THEN filter_by_keys(normalized, target_keys.v)
                             ELSE Ok(normalized)
             IN  IF ~filtered.ok THEN filtered
                 ELSE Ok([i \in DOMAIN filtered.val |->
                             Stamp(filtered.val[i], json_file)])

pathA == <<"a">>
pathDA == <<"d", "/", "a">>
pathDB == <<"d", "/", "b">>

CombinePaths == {pathA, pathDA, pathDB}

CombineFiles ==
    {FileOf(JArr(<<JObj(<< <<kA, JNum(1)>> >>), JObj(<< <<kA, JNum(2)>> >>)>>)),
     FileOf(JArr(<<JNum(1), JObj(<< <<kSourceFile, JStr(<<"z">>)>>,
                                    <<kB, JNum(2)>> >>)>>)),
     FileOf(JObj(<< <<kA, JObj(<< <<kB, JNum(5)>> >>)>> >>)),
     FileOf(JArr(<<>>)),
     FileOf(JNum(1)),
     MalformedFile}

CombineTargetOpts ==
    {None, Some(<<>>), Some(<<kA>>), Some(<<kSourceFile>>),
     Some(<<kA, kSourceFile>>)}

\* json_files with the file found at each path: one path names one file.
CombineInputs ==
    {fs \in SeqsUpTo(CombinePaths \X CombineFiles, MaxDocs) :
        \A i, j \in DOMAIN fs : fs[i][1] = fs[j][1] => fs[i][2] = fs[j][2]}

InitCombine ==
    /\ \E fs \in CombineInputs, target_keys \in CombineTargetOpts,
          old_file \in {NoFile, OldFile} :
          /\ call = [fn |-> "none",
                     json_files |-> [i \in DOMAIN fs |-> fs[i][1]],
                     files |-> [i \in DOMAIN fs |-> fs[i][2]],
                     target_keys |-> target_keys,
                     old_file |-> old_file]
          /\ output_file = old_file
    /\ ret = NoRet
    /\ pc = "idle"
    /\ json_data = JNull
    /\ data_list = <<>>
    /\ warnings = <<>>
    /\ merged_data = NoneValue
    /\ file_idx = 0

\* combined_data = []
CombineStart ==
    /\ Pending
    /\ pc = "idle"
    /\ Begin("_combine_multiple_files")
    /\ data_list' = <<>>
    /\ file_idx' = 1
    /\ pc' = "combine"
    /\ UNCHANGED <<ret, json_data, output_file, warnings, merged_data>>

\* one iteration of: for json_file in json_files
CombineFile ==
    /\ pc = "combine"
    /\ file_idx <= Len(call.json_files)
    /\ LET r == CombineOne(call.json_files[file_idx], call.files[file_idx],
                           call.target_keys)
       IN  IF r.ok
           THEN /\ data_list' = data_list \o r.val
                /\ json_data' = call.files[file_idx].doc
                /\ file_idx' = file_idx + 1
                /\ UNCHANGED <<ret, pc>>
           ELSE /\ ret' = r
                /\ pc' = "failed"
                /\ UNCHANGED <<data_list, json_data, file_idx>>
    /\ UNCHANGED <<call, output_file, warnings, merged_data>>

\* self._write_to_csv(combined_data, output_path); return str(output_path)
CombineWrite ==
    /\ pc = "combine"
    /\ file_idx > Len(call.json_files)
    /\ LET written == write_to_csv(data_list, output_file, warnings)
       IN  /\ output_file' = written.file
           /\ warnings' = written.warnings
    /\ ret' = Ok("output_path")
    /\ pc' = "done"
    /\ UNCHANGED <<call, json_data, data_list, merged_data, file_idx>>

NextCombine == CombineStart \/ CombineFile \/ CombineWrite

SpecCombine == InitCombine /\ [][NextCombine]_vars

IsCombine == call.fn = "_combine_multiple_files"

\* The number of records a document normalizes to.
RecordCount(doc) == IF IsList(doc) THEN Len(doc.a) ELSE 1

\* The number of combined records that come from the files before file i.
RECURSIVE CombineOffset(_)
CombineOffset(i) ==
    IF i = 1 THEN 0
    ELSE CombineOffset(i - 1) + RecordCount(call.files[i - 1].doc)

\* name is the last component of path.
IsBaseName(name, path) ==
    /\ \A i \in DOMAIN name : name[i] # "/"
    /\ Len(name) <= Len(path)
    /\ SubSeq(path, Len(path) - Len(name) + 1, Len(path)) = name
    /\ Len(name) < Len(path) => path[Len(path) - Len(name)] = "/"

\* C12: the combined sequence holds, for the files read so far in file
\* order, one record per normalized record in in-file order (so its length
\* is the sum of the files' record counts), each carrying _source_file equal
\* to the base name of its file, whatever _source_file the record had and
\* whether or not _source_file is a requested key; the other entries are
\* those of the source record, or exactly the requested keys.
C12_CombineStampsSource ==
    (IsCombine /\ pc \in {"combine", "done"}) =>
        /\ pc = "done" => file_idx = Len(call.json_files) + 1
        /\ Len(data_list) = CombineOffset(file_idx)
        /\ \A i \in 1..(file_idx - 1) :
              LET doc == call.files[i].doc
              IN  \A j \in 1..RecordCount(doc) :
                     LET rec == data_list[CombineOffset(i) + j]
                         elem == IF IsList(doc) THEN doc.a[j] ELSE doc
                     IN  /\ DictHas(rec, kSourceFile)
                         /\ DictGet(rec, kSourceFile).t = "str"
                         /\ IsBaseName(DictGet(rec, kSourceFile).s,
                                       call.json_files[i])
                         /\ IF Truthy(call.target_keys)
                            THEN DictKeys(rec) = Range(call.target_keys.v)
                                                    \cup {kSourceFile}
                            ELSE IF IsDict(elem)
                            THEN /\ DictKeys(rec) = DictKeys(elem.o)
                                                       \cup {kSourceFile}
                                 /\ \A k \in DictKeys(elem.o) \ {kSourceFile} :
                                       DictGet(rec, k) = DictGet(elem.o, k)
                            ELSE /\ DictKeys(rec) = {kValue, kSourceFile}
                                 /\ DictGet(rec, kValue) = elem

\* Two files of two records each give four records; a record that had its
\* own _source_file carries the file's base name.
C12_Witness ==
    /\ IsCombine
    /\ pc = "done"
    /\ call.json_files = <<pathDA, pathDB>>
    /\ \A i \in 1..2 : RecordCount(call.files[i].doc) = 2
    /\ call.files[2].doc.a[2].t = "obj"
    /\ DictHas(call.files[2].doc.a[2].o, kSourceFile)
    /\ Len(data_list) = 4
    /\ DictGet(data_list[1], kSourceFile) = JStr(<<"a">>)
    /\ DictGet(data_list[4], kSourceFile) = JStr(<<"b">>)
    /\ output_file.exists

(***************************************************************************)
(* _normalize_to_list applied to a value, and again to its own result.     *)
(***************************************************************************)
\* The Python list of dicts that _normalize_to_list returns, as a value.
ListOfDicts(records) == JArr([i \in DOMAIN records |-> JObj(records[i])])

NormScalars == {JNull, JBool(TRUE), JNum(1), JStr(sX)}

NormElems ==
    NormScalars
      \cup {JObj(<<>>), JObj(<< <<kA, JNum(1)>> >>),
            JObj(<< <<kValue, JNum(1)>> >>), JArr(<<>>), JArr(<<JNum(1)>>)}

NormData == NormElems \cup {JArr(a) : a \in SeqsUpTo(NormElems, MaxArr)}

InitNormalize ==
    /\ \E data \in NormData : call = [fn |-> "none", data |-> data]
    /\ InitRest

\* data_list = self._normalize_to_list(data)
Normalize ==
    /\ Pending
    /\ pc = "idle"
    /\ Begin("_normalize_to_list")
    /\ data_list' = normalize_to_list(call.data)
    /\ pc' = "normalized"
    /\ UNCHANGED <<ret, json_data, output_file, warnings, mergeVars>>

\* self._normalize_to_list(data_list): the result handed back as the argument
NormalizeAgain ==
    /\ pc = "normalized"
    /\ json_data' = ListOfDicts(data_list)
    /\ data_list' = normalize_to_list(ListOfDicts(data_list))
    /\ ret' = Ok(JNull)
    /\ pc' = "renormalized"
    /\ UNCHANGED <<call, output_file, warnings, mergeVars>>

NextNormalize == Normalize \/ NormalizeAgain

SpecNormalize == InitNormalize /\ [][NextNormalize]_vars

\* C13: the result of _normalize_to_list is a list of objects: an array
\* gives one entry per element, an object element as it is and any other
\* element wrapped under "value"; an object gives itself alone; a scalar
\* gives one object holding it under "value".  Applied to its own result,
\* _normalize_to_list returns that result unchanged.
C13_NormalizeIdempotent ==
    (call.fn = "_normalize_to_list") =>
        /\ pc = "normalized" =>
              LET v == call.data
                  Wrapped(e) == << <<kValue, e>> >>
              IN  IF v.t = "arr"
                  THEN /\ Len(data_list) = Len(v.a)
                       /\ \A i \in DOMAIN v.a :
                             data_list[i] = IF v.a[i].t = "obj" THEN v.a[i].o
                                            ELSE Wrapped(v.a[i])
                  ELSE IF v.t = "obj" THEN data_list = <<v.o>>
                  ELSE data_list = <<Wrapped(v)>>
        /\ pc = "renormalized" =>
              /\ json_data.t = "arr"
              /\ Len(data_list) = Len(json_data.a)
              /\ \A i \in DOMAIN data_list :
                    /\ json_data.a[i].t = "obj"
                    /\ data_list[i] = json_data.a[i].o

C13_Witness ==
    /\ call.fn = "_normalize_to_list"
    /\ pc = "renormalized"
    /\ call.data = JArr(<<JNum(1), JObj(<< <<kA, JNum(1)>> >>)>>)
    /\ data_list = << << <<kValue, JNum(1)>> >>, << <<kA, JNum(1)>> >> >>

IsConvert == call.fn = "convert_json_to_csv"

\* The nested_key_path of the call does not resolve in the loaded document.
UnresolvablePath ==
    /\ call.file.state = "json"
    /\ Truthy(call.nested_key_path)
    /\ ~extract_nested_data(call.file.doc, call.nested_key_path.v).ok

\* C14: in convert_json_to_csv the output file differs from what it was
\* before the call only once every stage before the write has completed;
\* a malformed or missing input file and an unresolvable nested_key_path
\* end the call with the error raised, never reach a later stage, and leave
\* the output file as it was.
C14_NoOutputOnEarlierFailure ==
    IsConvert =>
        /\ output_file # call.old_file => pc = "done" /\ ret.ok
        /\ pc = "failed" =>
              /\ ~ret.ok
              /\ ret # NoRet
              /\ output_file = call.old_file
        /\ call.file.state = "malformed" =>
              pc = "failed" /\ ret = Raise("ValueError")
        /\ call.file.state = "missing" =>
              pc = "failed" /\ ret = Raise("FileNotFoundError")
        /\ UnresolvablePath =>
              /\ pc \in {"extract", "failed"}
              /\ pc = "failed" =>
                    ret.err \in {"KeyError", "IndexError", "ValueError"}

C14_Witness ==
    /\ IsConvert
    /\ pc = "failed"
    /\ call.file.state = "json"
    /\ call.nested_key_path = Some(kZ)
    /\ ret = Raise("KeyError")
    /\ call.old_file = OldFile
    /\ output_file = OldFile

\* The number of leaf entries _flatten_dict emits for a value: one per
\* scalar, one per element of a list that is not an object.
RECURSIVE LeavesOfDict(_)
LeavesOfDict(v) ==
    LET Sum(f) == Len(Concat(f))
    IN  IF v.t = "obj"
        THEN Sum([i \in DOMAIN v.o |->
                    [j \in 1..LeavesOfDict(v.o[i][2]) |-> j]])
        ELSE IF v.t = "arr"
        THEN Sum([i \in DOMAIN v.a |->
                    IF v.a[i].t = "obj"
                    THEN [j \in 1..LeavesOfDict(v.a[i]) |-> j]
                    ELSE <<1>>])
        ELSE 1

\* The number of leaf entries flatten_json emits for a value: one per
\* scalar, one per list that is not a list of objects.
RECURSIVE LeavesOfJson(_)
LeavesOfJson(v) ==
    LET Sum(f) == Len(Concat(f))
    IN  IF v.t = "obj"
        THEN Sum([i \in DOMAIN v.o |->
                    [j \in 1..LeavesOfJson(v.o[i][2]) |-> j]])
        ELSE IF v.t = "arr"
        THEN IF \A i \in DOMAIN v.a : v.a[i].t = "obj"
             THEN Sum([i \in DOMAIN v.a |->
                         [j \in 1..LeavesOfJson(v.a[i]) |-> j]])
             ELSE 1
        ELSE 1

\* C15: flattening gives every leaf its own composite key: the result has
\* as many entries as leaf entries were emitted, none overwriting another.
C15_CompositeKeysDistinct ==
    (IsFlatten /\ ret.ok) =>
        Len(ret.val) = IF call.fn = "_flatten_dict"
                       THEN LeavesOfDict(call.doc)
                       ELSE LeavesOfJson(call.doc)

\* C16: when convert_json_to_csv is called with target_keys and
\* flatten_nested=True and writes a file, every requested key is a column
\* of the written header.
C16_RequestedKeysAreColumns ==
    (/\ IsConvert
     /\ pc = "done"
     /\ Truthy(call.target_keys)
     /\ call.flatten_nested
     /\ Len(data_list) > 0) =>
        \A i \in DOMAIN call.target_keys.v :
            \E j \in DOMAIN output_file.header :
                output_file.header[j] = call.target_keys.v[i]

=============================================================================
